---------------------------- MODULE Spec2Model ----------------------------
(***************************************************************************)
(* A model of the TRI/ENEM simulator: the estimation engine                *)
(* (src/tri_engine.py), the parameter loader (src/data_loader.py) and the  *)
(* Streamlit script that feeds the engine (src/app.py).                    *)
(*                                                                         *)
(* Numbers.  A Python float is modelled by an integer: the abilities, the  *)
(* difficulties and the scores of the model lie on the integer grid, so    *)
(* "theta - 1.0" is theta - 1 and "mean < 0.5" is 2 * sum < count.  The    *)
(* three non-finite floats are the values NaN, Infinity and -Infinity      *)
(* below.  Log-probabilities are kept in half units (LogEps), so that the  *)
(* prior -0.5 * theta**2 is the integer -(theta * theta).  A guessing      *)
(* parameter c is kept in hundredths: 20 is c = 0.20, and [0, 1) is 0..99. *)
(***************************************************************************)
EXTENDS Integers, Sequences, FiniteSets, TLC

(***************************************************************************)
(* Bounds of the model.                                                    *)
(***************************************************************************)
MaxItems == 3        \* longest array handed to the engine by a caller
ThetaMax == 7        \* abilities range over -ThetaMax .. ThetaMax

(***************************************************************************)
(* Floats.                                                                 *)
(***************************************************************************)
Infinity == 2^20
NaN == Infinity + 1
IsNaN(x) == x = NaN
IsFinite(x) == (0 - Infinity) < x /\ x < Infinity
FNeg(x) == IF IsNaN(x) THEN NaN ELSE 0 - x
FAdd(x, y) ==
    IF IsNaN(x) \/ IsNaN(y) THEN NaN
    ELSE IF ~IsFinite(x) /\ ~IsFinite(y) THEN (IF x = y THEN x ELSE NaN)
    ELSE IF ~IsFinite(x) THEN x
    ELSE IF ~IsFinite(y) THEN y
    ELSE x + y
FLeq(x, y) == ~IsNaN(x) /\ ~IsNaN(y) /\ x <= y

Thetas == (0 - ThetaMax)..ThetaMax
Floats == Thetas \cup {NaN, Infinity, 0 - Infinity}

\* Finite floats beyond the grid: one at which np.clip acts on every
\* probability of the model, and one whose square is no finite float (the
\* largest float is Infinity - 1; float64 has 1e200 ** 2 = inf).
ClippedTheta == 30
HugeTheta == 2^10

Min2(x, y) == IF x <= y THEN x ELSE y
Max2(x, y) == IF x >= y THEN x ELSE y

RECURSIVE SumSeq(_)
SumSeq(s) == IF s = <<>> THEN 0 ELSE Head(s) + SumSeq(Tail(s))

Arrays(S, n) == [1..n -> S]


(***************************************************************************)
(* numpy: 1-d arrays are sequences.  Elementwise arithmetic broadcasts:    *)
(* the lengths other than 1 must agree, a length-1 array is repeated, and  *)
(* any other combination raises ValueError.                                *)
(***************************************************************************)
Broadcastable(lens) == Cardinality(lens \ {1}) <= 1
BroadcastLen(lens) ==
    IF lens \ {1} = {} THEN 1 ELSE CHOOSE m \in lens \ {1} : TRUE
At(s, i) == IF Len(s) = 1 THEN s[1] ELSE s[i]

(***************************************************************************)
(* The engine, src/tri_engine.py.                                          *)
(***************************************************************************)
TRIEngine(mean, std) == [mean_scale |-> mean, std_scale |-> std]

\* The exponent -a * (theta - b) of line 19, in float arithmetic.
Exponent(theta, a, b) ==
    IF IsNaN(theta) THEN NaN
    ELSE IF ~IsFinite(theta)
         THEN (IF a = 0 THEN NaN
               ELSE IF (a > 0) = (theta > 0) THEN 0 - Infinity ELSE Infinity)
    ELSE 0 - (a * (theta - b))

\* P = c + (1 - c) / (1 + exp(e)) is kept symbolically, as the pair of its
\* guessing floor c and its exponent e; e = NaN makes P NaN.
logistic_3pl(theta, a, b, c) == [c |-> c, e |-> Exponent(theta, a, b)]

\* log(1e-10), rounded down, in half units: np.log of a probability that
\* np.clip has put in [1e-10, 1 - 1e-10] lies in LogEps .. 0.
LogEps == -47

\* log(clip(1 / (1 + exp(e)), 1e-10, 1 - 1e-10)) in half units, as the
\* interval that holds the float: log(1 + exp(e)) lies between max(e, 0) and
\* max(e, 0) + log(2), and the clip keeps the logarithm above log(1e-10).
LogSigmoid(e) ==
    LET s == IF e > 0 - LogEps THEN 0 - (2 * LogEps) ELSE 2 * Max2(e, 0)
    IN  [lo |-> Max2(LogEps, 0 - (s + 2)), hi |-> Max2(LogEps + 1, 0 - s)]

\* np.log(np.clip(p, 1e-10, 1 - 1e-10)) and np.log(1 - np.clip(...)): the
\* interval that holds the float, or NaN (np.clip and np.log keep a NaN).
\* With c = 0 the probability is 1 / (1 + exp(e)) and its complement is
\* 1 / (1 + exp(-e)); any other c leaves the whole clipped range.
LogClip(p) ==
    IF IsNaN(p.e) THEN [lo |-> NaN, hi |-> NaN]
    ELSE IF p.c = 0 THEN LogSigmoid(p.e)
    ELSE [lo |-> LogEps, hi |-> 0]
\* np.log(1 - p) with line 27 left out: exp(e) below 2**-53 (e < -37)
\* rounds p to 1.0, and the logarithm is taken at 0.
LogComplementUnclipped(p) ==
    IF IsNaN(p.e) THEN [lo |-> NaN, hi |-> NaN]
    ELSE IF p.e < -37 THEN [lo |-> 0 - Infinity, hi |-> 0 - Infinity]
    ELSE IF p.c = 0 THEN LogSigmoid(FNeg(p.e))
    ELSE [lo |-> LogEps, hi |-> 0]
LogClipComplement(p) ==
    IF IsNaN(p.e) THEN [lo |-> NaN, hi |-> NaN]
    ELSE IF p.c = 0 THEN LogSigmoid(FNeg(p.e))
    ELSE [lo |-> LogEps, hi |-> 0]

\* One term r * log(p) + (1 - r) * log(1 - p) of line 30, as an interval.
Term(r, p) ==
    LET lp == LogClip(p)
        lq == LogClipComplement(p)
        corners == {r * x + (1 - r) * y : x \in {lp.lo, lp.hi}, y \in {lq.lo, lq.hi}}
    IN  IF IsNaN(lp.lo) THEN [lo |-> NaN, hi |-> NaN]
        ELSE [lo |-> CHOOSE v \in corners : \A w \in corners : v <= w,
              hi |-> CHOOSE v \in corners : \A w \in corners : v >= w]

\* np.sum of line 30 over the n broadcast items: a NaN term makes it NaN.
SumTerms(theta, responses, params_a, params_b, params_c, n) ==
    LET terms == [i \in 1..n |->
                    Term(At(responses, i),
                         logistic_3pl(theta, At(params_a, i), At(params_b, i),
                                      At(params_c, i)))]
    IN  IF \E i \in 1..n : IsNaN(terms[i].lo) THEN [lo |-> NaN, hi |-> NaN]
        ELSE [lo |-> SumSeq([i \in 1..n |-> terms[i].lo]),
              hi |-> SumSeq([i \in 1..n |-> terms[i].hi])]

\* -0.5 * theta**2, in half units; a square past the largest float is inf.
log_prior(theta) ==
    IF IsNaN(theta) THEN NaN
    ELSE IF ~IsFinite(theta) THEN 0 - Infinity
    ELSE IF theta * theta >= Infinity THEN 0 - Infinity
    ELSE 0 - (theta * theta)

Lens(responses, params_a, params_b, params_c) ==
    {Len(responses), Len(params_a), Len(params_b), Len(params_c)}

\* The log-posterior of lines 21-35: the interval that holds the float the
\* code returns.  Its arrays must broadcast (the callers below check it).
log_posterior_noprior(theta, responses, params_a, params_b, params_c) ==
    SumTerms(theta, responses, params_a, params_b, params_c,
             BroadcastLen(Lens(responses, params_a, params_b, params_c)))
log_posterior(theta, responses, params_a, params_b, params_c) ==
    LET log_l == SumTerms(theta, responses, params_a, params_b, params_c,
                          BroadcastLen(Lens(responses, params_a, params_b, params_c)))
    IN  [lo |-> FAdd(log_l.lo, log_prior(theta)),
         hi |-> FAdd(log_l.hi, log_prior(theta))]

\* objective = lambda t: -self.log_posterior(t, ...), line 41.
objective(t, responses, params_a, params_b, params_c) ==
    LET lp == log_posterior(t, responses, params_a, params_b, params_c)
    IN  [lo |-> FNeg(lp.hi), hi |-> FNeg(lp.lo)]

initial_theta == 0

(***************************************************************************)
(* scipy.optimize.minimize(objective, x0, method='BFGS') is a library      *)
(* call; the model keeps what its result can be.  A run that reports       *)
(* success stopped at a point where the objective is a float no larger     *)
(* than at x0 (every accepted BFGS step decreases the objective, and a NaN *)
(* ends the run with success = False).  A run that reports failure may     *)
(* stop anywhere, at a non-finite point as well.                           *)
(***************************************************************************)
minimize(x0, responses, params_a, params_b, params_c) ==
    LET f0 == objective(x0, responses, params_a, params_b, params_c)
    IN  {[success |-> TRUE, x |-> x] :
            x \in {y \in Floats :
                    FLeq(objective(y, responses, params_a, params_b, params_c).lo,
                         f0.hi)}}
        \cup {[success |-> FALSE, x |-> x] : x \in Floats}

\* result.x[0] if result.success else initial_theta, line 44.
estimate_theta_always_x(result) == result.x
estimate_theta(result) ==
    IF result.success THEN result.x ELSE initial_theta

\* self.mean_scale + (self.std_scale * theta), line 51.
to_enem_score_no_mean(self, theta) == self.std_scale * theta
to_enem_score(self, theta) == self.mean_scale + (self.std_scale * theta)

FLess(x, y) == ~IsNaN(x) /\ ~IsNaN(y) /\ x < y

\* What a call returns, or the exception it raises.
Return(v) == [exc |-> "none", val |-> v]
Raise(e) == [exc |-> e, val |-> 0]

\* np.argsort(params_b): the indices that sort the array, a new array
\* (short arrays are sorted by insertion, which keeps ties in order).
RECURSIVE InsertIndex(_, _, _)
InsertIndex(sorted, i, arr) ==
    IF sorted = <<>> THEN <<i>>
    ELSE IF arr[i] < arr[Head(sorted)] THEN <<i>> \o sorted
    ELSE <<Head(sorted)>> \o InsertIndex(Tail(sorted), i, arr)
RECURSIVE ArgsortFrom(_, _, _)
ArgsortFrom(sorted, i, arr) ==
    IF i < 1 THEN sorted
    ELSE ArgsortFrom(InsertIndex(sorted, i, arr), i - 1, arr)
argsort(arr) == ArgsortFrom(<<>>, Len(arr), arr)

\* arr[indices]: a new array; an index past the end raises IndexError.
TakeOk(arr, indices) == \A k \in 1..Len(indices) : indices[k] <= Len(arr)
Take(arr, indices) == [k \in 1..Len(indices) |-> arr[indices[k]]]

\* arr[mask], the items the boolean mask selects, in order.
RECURSIVE MaskFrom(_, _, _)
MaskFrom(arr, mask, i) ==
    IF i > Len(arr) THEN <<>>
    ELSE (IF mask[i] THEN <<arr[i]>> ELSE <<>>) \o MaskFrom(arr, mask, i + 1)
BoolIndex(arr, mask) == MaskFrom(arr, mask, 1)

\* np.mean(x) < 0.5, for a non-empty x.
MeanBelowHalf(x) == 2 * SumSeq(x) < Len(x)
MeanAtMostHalf(x) == 2 * SumSeq(x) <= Len(x)

\* _check_coherence, lines 73-81.
check_coherence_at_most(theta, responses, params_b) ==
    LET easy_items_mask ==
            [i \in 1..Len(params_b) |-> FLess(params_b[i], FAdd(theta, -1))]
    IN  IF \E i \in 1..Len(params_b) : easy_items_mask[i]
        THEN IF Len(easy_items_mask) # Len(responses) THEN Raise("IndexError")
             ELSE LET easy_responses == BoolIndex(responses, easy_items_mask)
                  IN  IF MeanAtMostHalf(easy_responses)
                      THEN Return(FALSE) ELSE Return(TRUE)
        ELSE Return(TRUE)
check_coherence_reversed(theta, responses, params_b) ==
    LET easy_items_mask ==
            [i \in 1..Len(params_b) |-> FLess(params_b[i], FAdd(theta, -1))]
    IN  IF \E i \in 1..Len(params_b) : easy_items_mask[i]
        THEN IF Len(easy_items_mask) # Len(responses) THEN Raise("IndexError")
             ELSE LET easy_responses == BoolIndex(responses, easy_items_mask)
                  IN  IF MeanBelowHalf(easy_responses)
                      THEN Return(TRUE) ELSE Return(FALSE)
        ELSE Return(TRUE)
check_coherence(theta, responses, params_b) ==
    LET easy_items_mask ==
            [i \in 1..Len(params_b) |-> FLess(params_b[i], FAdd(theta, -1))]
    IN  IF \E i \in 1..Len(params_b) : easy_items_mask[i]
        THEN IF Len(easy_items_mask) # Len(responses) THEN Raise("IndexError")
             ELSE LET easy_responses == BoolIndex(responses, easy_items_mask)
                      accuracy_below_half == MeanBelowHalf(easy_responses)
                  IN  IF accuracy_below_half THEN Return(FALSE) ELSE Return(TRUE)
        ELSE Return(TRUE)

\* round(theta, 4): the grid's floats have no fifth decimal to drop.
Round4(theta) == theta

\* analyze_consistency, lines 53-71.
analyze_consistency_sorted_responses(theta, responses, params_b) ==
    LET sorted_indices == argsort(params_b)
    IN  IF ~TakeOk(responses, sorted_indices) THEN Raise("IndexError")
        ELSE LET sorted_responses == Take(responses, sorted_indices)
                 coherent == check_coherence(theta, sorted_responses, params_b)
             IN  IF coherent.exc # "none" THEN coherent
                 ELSE Return([total_acertos |-> SumSeq(responses),
                              theta_estimado |-> Round4(theta),
                              coerencia |-> IF coherent.val THEN "Alta"
                                            ELSE "Baixa"])
analyze_consistency(theta, responses, params_b) ==
    LET sorted_indices == argsort(params_b)
    IN  IF ~TakeOk(responses, sorted_indices) THEN Raise("IndexError")
        ELSE LET sorted_responses == Take(responses, sorted_indices)
                 sorted_diffs == Take(params_b, sorted_indices)
                 coherent == check_coherence(theta, responses, params_b)
             IN  IF coherent.exc # "none" THEN coherent
                 ELSE Return([total_acertos |-> SumSeq(responses),
                              theta_estimado |-> Round4(theta),
                              coerencia |-> IF coherent.val THEN "Alta"
                                            ELSE "Baixa"])

(***************************************************************************)
(* pandas.  A CSV file is its header, a sequence of distinct column names  *)
(* (read_csv renames a repeated name), and one array per column; a file    *)
(* with no header is an empty file, on which read_csv raises.  A DataFrame *)
(* is the sequence of its columns, each a label and an array.              *)
(***************************************************************************)
CsvFile(header, cols) == [header |-> header, cols |-> cols]
Readable(file) == file.header # <<>>
read_csv(file) ==
    [j \in 1..Len(file.header) |-> [name |-> file.header[j], values |-> file.cols[j]]]

\* col in df.columns
HasColumn(df, col) == \E j \in 1..Len(df) : df[j].name = col

\* df[col].values for a label that names one column.
ColumnValues(df, col) == df[CHOOSE j \in 1..Len(df) : df[j].name = col].values

\* df.rename(columns=mapping): a label in the mapping is replaced, the
\* others and the order of the columns are kept.
Rename(df, mapping) ==
    [j \in 1..Len(df) |->
        [name |-> IF df[j].name \in DOMAIN mapping THEN mapping[df[j].name]
                  ELSE df[j].name,
         values |-> df[j].values]]

\* df[labels] for a list of labels: for each label in turn, every column
\* that carries it, in the frame's order.
RECURSIVE ColumnsLabelled(_, _)
ColumnsLabelled(df, label) ==
    IF df = <<>> THEN <<>>
    ELSE (IF Head(df).name = label THEN <<Head(df)>> ELSE <<>>)
         \o ColumnsLabelled(Tail(df), label)
RECURSIVE SelectColumns(_, _)
SelectColumns(df, labels) ==
    IF labels = <<>> THEN <<>>
    ELSE ColumnsLabelled(df, Head(labels)) \o SelectColumns(df, Tail(labels))

ColumnNames(df) == [j \in 1..Len(df) |-> df[j].name]

(***************************************************************************)
(* The loader, src/data_loader.py.                                         *)
(***************************************************************************)
mapeamento ==
    [n \in {"discriminacao", "dificuldade", "acerto_casual"} |->
        CASE n = "discriminacao" -> "a"
          [] n = "dificuldade" -> "b"
          [] n = "acerto_casual" -> "c"]

colunas_necessarias == <<"a", "b", "c">>

HasAll(df, labels) == \A k \in 1..Len(labels) : HasColumn(df, labels[k])

\* carregar_csv, lines 48-69 (an empty file makes read_csv raise).
carregar_csv(caminho) ==
    IF ~Readable(caminho) THEN Raise("EmptyDataError")
    ELSE LET df == Rename(read_csv(caminho), mapeamento)
         IN  IF ~HasAll(df, colunas_necessarias) THEN Raise("ValueError")
             ELSE Return(SelectColumns(df, colunas_necessarias))

(***************************************************************************)
(* numpy's global random generator and gerar_parametros_realistas.  The    *)
(* generator's state is one of RngModulus words; a draw returns the word   *)
(* and steps the state, and np.random.seed(s) puts the generator in the    *)
(* state that s alone determines.  A variate is kept as the word it was    *)
(* made from; np.clip folds the words of both tails onto the clip bounds.  *)
(***************************************************************************)
RngModulus == 8
RngStates == 0..(RngModulus - 1)
RngStep(state) == (5 * state + 3) % RngModulus
RECURSIVE RngAdvance(_, _)
RngAdvance(state, k) == IF k = 0 THEN state ELSE RngAdvance(RngStep(state), k - 1)

\* np.random.seed(s): ValueError unless 0 <= s < 2**32.
SeedOk(s) == s >= 0
SeedState(s) == s % RngModulus

\* n variates drawn from the generator in the given state, in order.
Draw(state, n) == [k \in 1..n |-> RngAdvance(state, k - 1)]
Clip(arr, lo, hi) == [k \in 1..Len(arr) |-> Max2(lo, Min2(hi, arr[k]))]

\* The seed argument: None (the default) or an integer.
NoSeed == [none |-> TRUE, val |-> 0]
\* `if seed:` -- None and 0 are both false.
Truthy(seed) == ~seed.none /\ seed.val # 0

\* gerar_parametros_realistas, lines 12-45, called with the global generator
\* in the given state: what it returns or raises, and the state it leaves.
gerar_parametros_realistas(num_itens, seed, state) ==
    IF Truthy(seed) /\ ~SeedOk(seed.val)
    THEN [ret |-> Raise("ValueError"), state |-> state]
    ELSE LET s0 == IF Truthy(seed) THEN SeedState(seed.val) ELSE state
             a == Clip(Draw(s0, num_itens), 1, RngModulus - 2)
             b == Clip(Draw(RngAdvance(s0, num_itens), num_itens), 1,
                       RngModulus - 2)
             c == Draw(RngAdvance(s0, 2 * num_itens), num_itens)
             df == <<[name |-> "item_id", values |-> [k \in 1..num_itens |-> k]],
                     [name |-> "a", values |-> a],
                     [name |-> "b", values |-> b],
                     [name |-> "c", values |-> c]>>
         IN  [ret |-> Return(df), state |-> RngAdvance(s0, 3 * num_itens)]

(***************************************************************************)
(* The Streamlit script, src/app.py: its helpers.                          *)
(***************************************************************************)
None == [none |-> TRUE, val |-> <<>>]
Some(v) == [none |-> FALSE, val |-> v]
Undefined == [none |-> TRUE, val |-> 0]

\* int(r), line 142, on the tokens the model types into the text area.
Tokens == {"0", "1", "2", "x"}
int(tok) ==
    CASE tok = "0" -> Return(0)
      [] tok = "1" -> Return(1)
      [] tok = "2" -> Return(2)
      [] OTHER -> Raise("ValueError")

\* np.array([int(r) for r in respostas_str]), line 142.
ParseRespostas(respostas_str) ==
    IF \E k \in 1..Len(respostas_str) : int(respostas_str[k]).exc # "none"
    THEN Raise("ValueError")
    ELSE Return([k \in 1..Len(respostas_str) |-> int(respostas_str[k]).val])

\* The example responses of lines 181-183.
exemplo ==
    <<1, 1, 1, 1, 1, 1, 0, 0, 0, 0, 1, 1, 0, 0, 0,
      1, 1, 1, 0, 0, 1, 1, 0, 0, 0, 1, 0, 0, 0, 0,
      1, 1, 1, 1, 0, 0, 0, 0, 0, 0, 1, 1, 1, 0, 0>>

\* respostas[:num_questoes]
Prefix(arr, n) == [k \in 1..Min2(n, Len(arr)) |-> arr[k]]

\* np.linspace(lo, hi, n), each point rounded to the integer grid.
linspace(lo, hi, n) ==
    [k \in 1..n |->
        IF n = 1 THEN lo
        ELSE lo + (2 * (hi - lo) * (k - 1) + (n - 1)) \div (2 * (n - 1))]

\* np.random.uniform(0.8, 2.5, n) and np.random.uniform(0.15, 0.25, n) after
\* np.random.seed(42): the seed fixes the draws.  On the integer grid every
\* draw of the first is 1 or 2; every draw of the second is one of the
\* hundredths 15..25.
uniform_a(n) == [k \in 1..n |-> 1 + (k % 2)]
uniform_c(n) == [k \in 1..n |-> 15 + ((7 * k) % 11)]

\* num_itens = len(respostas), line 208: the length of the synthesized
\* parameters, given the responses and the slider's num_questoes.
synth_num_itens_slider(respostas_val, slider) == slider
synth_num_itens(respostas_val, slider) == Len(respostas_val)

\* One recorded invocation of a core operation: its name and array arguments.
CoreCall(name, arrays) == [name |-> name, arrays |-> arrays]

(***************************************************************************)
(* The state.  A call site of the engine (the __main__ block of            *)
(* tri_engine.py is one) owns an engine and four arrays and calls the core *)
(* operations on them, one synchronous call at a time.                     *)
(***************************************************************************)
VARIABLES
    engine,        \* the TRIEngine instance: mean_scale, std_scale
    responses,     \* the caller's response array
    params_a,      \* the discrimination array (of the caller, or of app.py)
    params_b,      \* the difficulty array
    params_c,      \* the guessing array
    op,            \* the core operation called last ("none" before any)
    theta,         \* the theta argument of that call
    opt,           \* the OptimizeResult of the last minimize run
    ret,           \* what the last call returned or raised
    caminho,       \* data_loader: the CSV file carregar_csv is given
    carregado,     \* data_loader: what carregar_csv returned or raised
    gerador,       \* numpy: the state of the global random generator
    gerados,       \* data_loader: the calls of gerar_parametros_realistas so
                   \* far, each with its arguments and what it returned
    pc,            \* app.py: the block of the script that runs next
    arquivo_parametros,     \* app.py: the uploaded parameter file, or None
    parametros_fornecidos,  \* app.py, line 56
    num_questoes,  \* app.py: the slider of line 112
    tipo_entrada,  \* app.py: the radio of line 122
    respostas,     \* app.py: the response array, or None
    num_itens,     \* app.py: the local of lines 204 and 208, or undefined
    theta_estimado,\* app.py, line 219, or undefined
    nota_enem,     \* app.py, line 220, or undefined
    analise,       \* app.py, line 221, or undefined
    mensagens,     \* app.py: the st.error/warning/success/info shown in this run
    metricas,      \* app.py: the st.metric cards shown in this run
    core_calls,    \* app.py: the core operations invoked in this run, in order
    exc            \* app.py: the exception that ended this run, or "none"

enginevars == <<responses, op, theta, opt, ret>>
sharedvars == <<engine, params_a, params_b, params_c>>
geradorvars == <<gerador, gerados>>
loadervars == <<caminho, carregado, geradorvars>>
appvars ==
    <<pc, arquivo_parametros, parametros_fornecidos, num_questoes, tipo_entrada,
      respostas, num_itens, theta_estimado, nota_enem, analise, mensagens,
      metricas, core_calls, exc>>
vars == <<enginevars, sharedvars, loadervars, appvars>>

\* The objects a core operation can reach: self and its array arguments.
Heap ==
    [engine |-> engine, responses |-> responses, params_a |-> params_a,
     params_b |-> params_b, params_c |-> params_c]

RECURSIVE SortedInsert(_, _)
SortedInsert(sorted, v) ==
    IF sorted = <<>> THEN <<v>>
    ELSE IF v < Head(sorted) THEN <<v>> \o sorted
    ELSE <<Head(sorted)>> \o SortedInsert(Tail(sorted), v)
RECURSIVE SortArray(_)
SortArray(arr) ==
    IF arr = <<>> THEN <<>> ELSE SortedInsert(SortArray(Tail(arr)), Head(arr))

\* The heap after a core operation, lines 14-81: no method assigns to
\* self.mean_scale or self.std_scale, and every numpy call made on an
\* argument (arithmetic, np.clip, np.log, np.sum, np.argsort, indexing by an
\* index or mask array, np.any, np.mean) returns a new array.
CoreEffectSortInPlace(name, heap) ==
    IF name = "analyze_consistency"
    THEN [heap EXCEPT !.params_b = SortArray(@)]
    ELSE heap
CoreEffect(name, heap) == heap

NoOpt == [success |-> FALSE, x |-> 0]
NoAnalysis == [total_acertos |-> 0, theta_estimado |-> 0, coerencia |-> ""]
Pending == [exc |-> "pending", val |-> 0]

\* The variables of a component that is not running.
EngineIdle ==
    /\ responses = <<>>
    /\ op = "none"
    /\ theta = 0
    /\ opt = NoOpt
    /\ ret = Return(0)
GeradorIdle ==
    /\ gerador = 0
    /\ gerados = <<>>
LoaderIdle ==
    /\ caminho = CsvFile(<<>>, <<>>)
    /\ carregado = Pending
    /\ GeradorIdle
AppStart ==
    /\ pc = "tab1_parametros"
    /\ arquivo_parametros = None
    /\ parametros_fornecidos = FALSE
    /\ num_questoes = 45
    /\ tipo_entrada = "Manualmente"
    /\ respostas = None
    /\ num_itens = Undefined
    /\ theta_estimado = Undefined
    /\ nota_enem = Undefined
    /\ analise = [none |-> TRUE, val |-> NoAnalysis]
    /\ mensagens = {}
    /\ metricas = {}
    /\ core_calls = <<>>
    /\ exc = "none"

\* The engines of the model: the default scale and the standard scale.
Engines == {TRIEngine(500, 100), TRIEngine(0, 1)}
Outcomes == {0, 1}
Difficulties == {-1, 1}
Discriminations == {1}
Guessings == {0, 20}

EngineInit ==
    /\ engine \in Engines
    /\ \E n \in 0..MaxItems :
        /\ responses \in Arrays(Outcomes, n)
        /\ params_b \in Arrays(Difficulties, n)
        /\ params_a \in {[i \in 1..n |-> a] : a \in Discriminations}
        /\ params_c \in {[i \in 1..n |-> c] : c \in Guessings}
    /\ op = "none"
    /\ theta = 0
    /\ opt = NoOpt
    /\ ret = Return(0)
    /\ LoaderIdle
    /\ AppStart

\* One call of a core operation: the call's name and theta, what it
\* returns, the optimizer's result if it ran one, and the heap it leaves.
Call(name, t, r, o) ==
    LET heap == CoreEffect(name, Heap)
    IN  /\ op' = name
        /\ theta' = t
        /\ ret' = r
        /\ opt' = o
        /\ engine' = heap.engine
        /\ responses' = heap.responses
        /\ params_a' = heap.params_a
        /\ params_b' = heap.params_b
        /\ params_c' = heap.params_c
        /\ UNCHANGED <<loadervars, appvars>>

CallLogistic3pl ==
    /\ op = "none"
    /\ \E t \in Thetas :
        Call("logistic_3pl", t,
             Return([i \in 1..Len(params_b) |->
                        logistic_3pl(t, params_a[i], params_b[i], params_c[i])]),
             NoOpt)

\* log_posterior takes any float: the grid, the non-finite floats, and the
\* finite floats beyond the grid.
PosteriorThetas ==
    Floats \cup {0 - ClippedTheta, ClippedTheta, 0 - HugeTheta, HugeTheta}

CallLogPosterior ==
    /\ op = "none"
    /\ \E t \in PosteriorThetas :
        Call("log_posterior", t,
             Return(log_posterior(t, responses, params_a, params_b, params_c)),
             NoOpt)

CallEstimateTheta ==
    /\ op = "none"
    /\ \E result \in minimize(initial_theta, responses, params_a, params_b, params_c) :
        Call("estimate_theta", initial_theta, Return(estimate_theta(result)),
             result)

CallToEnemScore ==
    /\ op = "none"
    /\ \E t \in Thetas :
        Call("to_enem_score", t, Return(to_enem_score(engine, t)), NoOpt)

CallAnalyzeConsistency ==
    /\ op = "none"
    /\ \E t \in Thetas :
        Call("analyze_consistency", t,
             analyze_consistency(t, responses, params_b), NoOpt)

\* The caller takes the result; the engine is ready for the next call.
Returned ==
    /\ op # "none"
    /\ op' = "none"
    /\ theta' = 0
    /\ opt' = NoOpt
    /\ ret' = Return(0)
    /\ UNCHANGED <<engine, responses, params_a, params_b, params_c>>
    /\ UNCHANGED <<loadervars, appvars>>

EngineNext ==
    \/ CallLogistic3pl
    \/ CallLogPosterior
    \/ CallEstimateTheta
    \/ CallToEnemScore
    \/ CallAnalyzeConsistency
    \/ Returned

EngineSpec == EngineInit /\ [][EngineNext]_vars

(***************************************************************************)
(* The loader: carregar_csv applied to a CSV file.                         *)
(***************************************************************************)
MaxCols == 4         \* most columns in a file given to carregar_csv

Labels ==
    {"a", "b", "c", "discriminacao", "dificuldade", "acerto_casual", "item_id"}

\* The headers of at most n distinct labels.
Headers(n) ==
    UNION {{h \in [1..k -> Labels] : \A x, y \in 1..k : h[x] = h[y] => x = y} :
           k \in 0..n}

LoaderInit ==
    /\ \E h \in Headers(MaxCols) :
          \* a one-row file; the value of a column is its place in the file
          caminho = CsvFile(h, [x \in 1..Len(h) |-> <<x>>])
    /\ carregado = Pending
    /\ GeradorIdle
    /\ engine = TRIEngine(500, 100)
    /\ params_a = <<>>
    /\ params_b = <<>>
    /\ params_c = <<>>
    /\ EngineIdle
    /\ AppStart

CarregarCsv ==
    /\ carregado = Pending
    /\ carregado' = carregar_csv(caminho)
    /\ UNCHANGED <<caminho, geradorvars, enginevars, sharedvars, appvars>>

LoaderNext == CarregarCsv

LoaderSpec == LoaderInit /\ [][LoaderNext]_vars

(***************************************************************************)
(* The parameter generator: a program that calls                           *)
(* gerar_parametros_realistas and uses numpy's global generator in         *)
(* between, as gerar_exemplo_aluno_coerente (line 87) and                  *)
(* gerar_exemplo_aluno_incoerente (line 101) do.  The generator starts in  *)
(* the state the operating system's entropy gave it.                       *)
(***************************************************************************)
MaxCalls == 2        \* most calls of gerar_parametros_realistas in a run
MaxSeed == 2         \* integer seeds range over -1 .. MaxSeed
MaxNumItens == 2     \* num_itens ranges over 0 .. MaxNumItens

Seeds == {NoSeed} \cup {Some(s) : s \in -1..MaxSeed}

GeneratorInit ==
    /\ gerador \in RngStates
    /\ gerados = <<>>
    /\ caminho = CsvFile(<<>>, <<>>)
    /\ carregado = Pending
    /\ engine = TRIEngine(500, 100)
    /\ params_a = <<>>
    /\ params_b = <<>>
    /\ params_c = <<>>
    /\ EngineIdle
    /\ AppStart

GerarParametrosRealistas ==
    /\ Len(gerados) < MaxCalls
    /\ \E num_itens_arg \in 0..MaxNumItens, seed \in Seeds :
          LET out == gerar_parametros_realistas(num_itens_arg, seed, gerador)
          IN  /\ gerador' = out.state
              /\ gerados' = Append(gerados, [num_itens |-> num_itens_arg,
                                             seed |-> seed, ret |-> out.ret])
    /\ UNCHANGED <<caminho, carregado, enginevars, sharedvars, appvars>>

\* np.random.random() or np.random.randint(...): one more draw.
UsarGerador ==
    /\ gerador' = RngStep(gerador)
    /\ UNCHANGED <<gerados, caminho, carregado, enginevars, sharedvars, appvars>>

GeneratorNext == GerarParametrosRealistas \/ UsarGerador

GeneratorSpec == GeneratorInit /\ [][GeneratorNext]_vars

(***************************************************************************)
(* The Streamlit script, src/app.py.  Streamlit runs the script from top   *)
(* to bottom on every interaction; a run reads the widgets block by block. *)
(* The model keeps the blocks that assign what reaches the core: the       *)
(* parameter upload, the slider, the three ways to enter responses and the *)
(* analysis tab up to its metric cards (the charts and texts after line    *)
(* 256 assign nothing the model keeps).                                    *)
(***************************************************************************)
MaxRespostas == 2    \* most rows of an uploaded file, most tokens typed

\* The parameter files the model uploads: a header, n rows, and in every
\* row the discrimination and difficulty of one of ParamItems and guessing 0
\* (item_id counts rows).
ParamHeaders ==
    {<<"a", "b", "c">>,
     <<"discriminacao", "dificuldade", "acerto_casual">>,
     <<"item_id", "a", "b", "c">>,
     <<"a", "b">>,
     <<"a", "discriminacao", "b", "c">>}
ColumnData(label, n, item) ==
    [k \in 1..n |->
        CASE label \in {"a", "discriminacao"} -> item[1]
          [] label \in {"b", "dificuldade"} -> item[2]
          [] label \in {"c", "acerto_casual"} -> 0
          [] OTHER -> k]
ParamFile(h, n, item) ==
    CsvFile(h, [x \in 1..Len(h) |-> ColumnData(h[x], n, item)])
ParamItems == {<<1, -1>>, <<1, 1>>, <<3, 7>>}
ParamFiles ==
    {ParamFile(h, n, item) : h \in ParamHeaders, n \in 1..MaxRespostas,
                             item \in ParamItems}
    \cup {ParamFile(h, 0, <<1, 0>>) : h \in ParamHeaders}
    \cup {CsvFile(<<>>, <<>>)}

\* The response files the model uploads: one column, or an empty file.
RespostaValues == {0, 1, 2}
RespostaFiles ==
    {CsvFile(<<"resposta">>, <<v>>) :
        v \in UNION {Arrays(RespostaValues, n) : n \in 0..MaxRespostas}}
    \cup {CsvFile(<<>>, <<>>)}

NumQuestoes == {5, 45, 180}

AppInit ==
    /\ AppStart
    /\ engine = TRIEngine(500, 100)
    /\ params_a = <<>>
    /\ params_b = <<>>
    /\ params_c = <<>>
    /\ EngineIdle
    /\ LoaderIdle

\* Lines 56-88: the optional upload of the item parameters.  (None of
\* params_a, params_b, params_c is read while parametros_fornecidos is
\* False; the model keeps their None as the empty array.)
ParametrosUpload ==
    /\ pc = "tab1_parametros"
    /\ pc' = "tab1_configurar"
    /\ \/ /\ arquivo_parametros' = None
          /\ UNCHANGED <<parametros_fornecidos, params_a, params_b, params_c,
                         mensagens>>
       \/ \E arquivo \in ParamFiles :
            /\ arquivo_parametros' = Some(arquivo)
            /\ IF ~Readable(arquivo)
               THEN /\ mensagens' = mensagens \cup {"erro_processar_parametros"}
                    /\ UNCHANGED <<parametros_fornecidos, params_a, params_b,
                                   params_c>>
               ELSE LET df_params == read_csv(arquivo)
                    IN  IF HasAll(df_params, colunas_necessarias)
                        THEN /\ params_a' = ColumnValues(df_params, "a")
                             /\ params_b' = ColumnValues(df_params, "b")
                             /\ params_c' = ColumnValues(df_params, "c")
                             /\ parametros_fornecidos' = TRUE
                             /\ mensagens' = mensagens \cup {"parametros_carregados"}
                        ELSE /\ mensagens' = mensagens \cup {"erro_colunas_parametros"}
                             /\ UNCHANGED <<parametros_fornecidos, params_a,
                                            params_b, params_c>>
    /\ UNCHANGED <<engine, num_questoes, tipo_entrada, respostas, num_itens,
                   theta_estimado, nota_enem, analise, metricas, core_calls, exc>>
    /\ UNCHANGED <<enginevars, loadervars>>

\* Lines 106-117: the slider.
ConfigurarProva ==
    /\ pc = "tab1_configurar"
    /\ pc' = "tab1_respostas"
    /\ num_questoes' \in NumQuestoes
    /\ UNCHANGED <<arquivo_parametros, parametros_fornecidos, tipo_entrada,
                   respostas, num_itens, theta_estimado, nota_enem, analise,
                   mensagens, metricas, core_calls, exc>>
    /\ UNCHANGED <<enginevars, sharedvars, loadervars>>

\* Lines 144-147 and 169-172: the length of the responses against the slider.
LengthMessage(arr) ==
    IF Len(arr) # num_questoes THEN "aviso_numero_respostas"
    ELSE "respostas_carregadas"

RespostasFrame ==
    /\ pc = "tab1_respostas"
    /\ pc' = "tab2"
    /\ UNCHANGED <<arquivo_parametros, parametros_fornecidos, num_questoes,
                   num_itens, theta_estimado, nota_enem, analise, metricas,
                   core_calls, exc>>
    /\ UNCHANGED <<enginevars, sharedvars, loadervars>>

\* Lines 129-150: responses typed into the text area.  respostas_str is the
\* text after replace(",", " ").split(); a text of separators only is not
\* empty and has no token.
RespostasManual ==
    /\ RespostasFrame
    /\ tipo_entrada' = "Manualmente"
    /\ \/ /\ respostas' = None             \* the text area is empty
          /\ UNCHANGED mensagens
       \/ \E respostas_str \in UNION {Arrays(Tokens, n) : n \in 0..MaxRespostas} :
            LET parsed == ParseRespostas(respostas_str)
            IN  IF parsed.exc = "none"
                THEN /\ respostas' = Some(parsed.val)
                     /\ mensagens' = mensagens \cup {LengthMessage(parsed.val)}
                ELSE /\ respostas' = None
                     /\ mensagens' = mensagens \cup {"erro_processar_respostas"}

\* Lines 152-174: responses uploaded as a CSV file.
RespostasUpload ==
    /\ RespostasFrame
    /\ tipo_entrada' = "Upload CSV"
    /\ \/ /\ respostas' = None             \* no file is uploaded
          /\ UNCHANGED mensagens
       \/ \E uploaded_file \in RespostaFiles :
            IF ~Readable(uploaded_file)
            THEN /\ respostas' = None
                 /\ mensagens' = mensagens \cup {"erro_processar_arquivo"}
            ELSE LET df == read_csv(uploaded_file)
                 IN  \E coluna_respostas \in {df[x].name : x \in 1..Len(df)} :
                        LET values == ColumnValues(df, coluna_respostas)
                        IN  /\ respostas' = Some(values)
                            /\ mensagens' = mensagens \cup {LengthMessage(values)}

\* Lines 176-189: the built-in example.
RespostasExemplo ==
    /\ RespostasFrame
    /\ tipo_entrada' = "Usar Exemplo"
    /\ respostas' = Some(IF Len(exemplo) > num_questoes
                         THEN Prefix(exemplo, num_questoes) ELSE exemplo)
    /\ mensagens' = mensagens \cup {"exemplo_carregado"}

\* Lines 191-254: the analysis tab.
Analise ==
    /\ pc = "tab2"
    /\ pc' = "fim"
    /\ IF respostas.none
       THEN /\ mensagens' = mensagens \cup {"aviso_sem_respostas"}
            /\ UNCHANGED <<sharedvars, num_itens, theta_estimado, nota_enem,
                           analise, metricas, core_calls, exc>>
       ELSE LET r == respostas.val
                mismatch == parametros_fornecidos /\ Len(params_a) # Len(r)
                synth == synth_num_itens(r, num_questoes)
                a == IF parametros_fornecidos THEN params_a ELSE uniform_a(synth)
                b == IF parametros_fornecidos THEN params_b
                     ELSE linspace(-3, 3, synth)
                c == IF parametros_fornecidos THEN params_c ELSE uniform_c(synth)
                n == IF mismatch THEN Undefined
                     ELSE IF parametros_fornecidos THEN Some(Len(params_a))
                     ELSE Some(synth)
                shown == IF ~parametros_fornecidos THEN "info_parametros_simulados"
                         ELSE IF mismatch THEN "erro_tamanho_parametros"
                         ELSE "usando_parametros_fornecidos"
                self == TRIEngine(500, 100)
                ok == Broadcastable(Lens(r, a, b, c))
            IN  /\ params_a' = a
                /\ params_b' = b
                /\ params_c' = c
                /\ num_itens' = n
                /\ mensagens' = mensagens \cup {shown}
                /\ engine' = self
                /\ \E result \in IF ok THEN minimize(initial_theta, r, a, b, c)
                                 ELSE {NoOpt} :
                     LET t == estimate_theta(result)
                         an == analyze_consistency(t, r, b)
                     IN  IF ~ok
                         THEN \* the objective raises at its first evaluation
                              /\ exc' = "ValueError"
                              /\ core_calls' = <<CoreCall("estimate_theta", <<r, a, b, c>>)>>
                              /\ UNCHANGED <<theta_estimado, nota_enem, analise,
                                             metricas>>
                         ELSE /\ theta_estimado' = Some(t)
                              /\ nota_enem' = Some(to_enem_score(self, t))
                              /\ core_calls' =
                                    <<CoreCall("estimate_theta", <<r, a, b, c>>),
                                      CoreCall("to_enem_score", <<>>),
                                      CoreCall("analyze_consistency", <<r, b>>)>>
                              /\ IF an.exc # "none"
                                 THEN /\ exc' = an.exc
                                      /\ UNCHANGED <<analise, metricas>>
                                 ELSE /\ analise' = Some(an.val)
                                      /\ IF n.none
                                         THEN /\ exc' = "NameError"
                                              /\ metricas' = {"theta", "nota"}
                                         ELSE IF n.val = 0
                                         THEN /\ exc' = "ZeroDivisionError"
                                              /\ metricas' = {"theta", "nota"}
                                         ELSE /\ exc' = "none"
                                              /\ metricas' = {"theta", "nota",
                                                              "acertos", "coerencia"}
    /\ UNCHANGED <<arquivo_parametros, parametros_fornecidos, num_questoes,
                   tipo_entrada, respostas>>
    /\ UNCHANGED <<enginevars, loadervars>>

\* Any interaction runs the script again from the top, with fresh locals.
Rerun ==
    /\ pc = "fim"
    /\ pc' = "tab1_parametros"
    /\ arquivo_parametros' = None
    /\ parametros_fornecidos' = FALSE
    /\ num_questoes' = 45
    /\ tipo_entrada' = "Manualmente"
    /\ respostas' = None
    /\ num_itens' = Undefined
    /\ theta_estimado' = Undefined
    /\ nota_enem' = Undefined
    /\ analise' = [none |-> TRUE, val |-> NoAnalysis]
    /\ mensagens' = {}
    /\ metricas' = {}
    /\ core_calls' = <<>>
    /\ exc' = "none"
    /\ engine' = TRIEngine(500, 100)
    /\ params_a' = <<>>
    /\ params_b' = <<>>
    /\ params_c' = <<>>
    /\ UNCHANGED <<enginevars, loadervars>>

Next ==
    \/ ParametrosUpload
    \/ ConfigurarProva
    \/ RespostasManual
    \/ RespostasUpload
    \/ RespostasExemplo
    \/ Analise
    \/ Rerun

Spec == AppInit /\ [][Next]_vars

(***************************************************************************)
(* The claims about the engine, checked under EngineSpec.                  *)
(***************************************************************************)
AllOnes(arr) == \A i \in 1..Len(arr) : arr[i] = 1
ValidItems ==
    /\ Len(params_a) = Len(responses)
    /\ Len(params_b) = Len(responses)
    /\ Len(params_c) = Len(responses)
    /\ \A i \in 1..Len(params_a) : params_a[i] > 0
    /\ \A i \in 1..Len(params_c) : 0 <= params_c[i] /\ params_c[i] < 100

\* The easy subset {i : b[i] < theta - 1.0} of the last call, and the number
\* of correct responses inside it.
EasySubset == {i \in 1..Len(params_b) : params_b[i] < theta - 1}
EasyHits == Cardinality({i \in EasySubset : responses[i] = 1})

\* C1: analyze_consistency returns the label Low ("Baixa") if and only if
\* the easy subset is non-empty and fewer than half of its responses are
\* correct; in every other case it returns High ("Alta").
C1_LowIffEasyAccuracyBelowHalf ==
    op = "analyze_consistency" =>
        /\ ret.exc = "none"
        /\ ret.val.coerencia \in {"Alta", "Baixa"}
        /\ ret.val.coerencia = "Baixa" <=>
              (EasySubset # {} /\ 2 * EasyHits < Cardinality(EasySubset))

C1_Witness ==
    /\ op = "analyze_consistency"
    /\ ret.val.coerencia = "Baixa"
    /\ Cardinality(EasySubset) = 3
    /\ EasyHits = 1

\* C2: when the optimizer run ends without reporting success, estimate_theta
\* returns the initial value 0.0, a finite float, and raises nothing; it
\* returns the optimizer's point when the optimizer reports success.
C2_FallbackToInitialTheta ==
    op = "estimate_theta" =>
        /\ ret.exc = "none"
        /\ ~opt.success => (ret.val = 0 /\ IsFinite(ret.val))
        /\ opt.success => ret.val = opt.x

C2_Witness ==
    /\ op = "estimate_theta"
    /\ ~opt.success
    /\ IsNaN(opt.x)
    /\ ret = Return(0)

\* C4: to_enem_score(theta) equals mean_scale + std_scale * theta, for every
\* engine and every theta; to_enem_score(0) equals mean_scale.
C4_AffineScore ==
    op = "to_enem_score" =>
        /\ ret = Return(engine.mean_scale + engine.std_scale * theta)
        /\ theta = 0 => ret.val = engine.mean_scale

C4_Witness ==
    /\ op = "to_enem_score"
    /\ engine = TRIEngine(500, 100)
    /\ theta = 2
    /\ ret.val = 700

\* C8: on a valid item set and a response vector of 1s only, estimate_theta
\* returns a finite value.
C8_AllCorrectIsFinite ==
    (op = "estimate_theta" /\ ValidItems /\ AllOnes(responses)) =>
        (ret.exc = "none" /\ IsFinite(ret.val))

C8_Witness ==
    /\ op = "estimate_theta"
    /\ ValidItems
    /\ AllOnes(responses)
    /\ Len(responses) = MaxItems
    /\ opt.success
    /\ ret.val > 0

EqualLengths(arrays) ==
    \A x, y \in 1..Len(arrays) : Len(arrays[x]) = Len(arrays[y])
Binary(arr) == \A k \in 1..Len(arr) : arr[k] \in {0, 1}

\* C3: a length mismatch between the item parameters and the responses is
\* reported before the core is invoked, so estimate_theta and
\* analyze_consistency are only ever called with arrays of one length.
C3_CoreCalledWithEqualLengths ==
    \A k \in 1..Len(core_calls) : EqualLengths(core_calls[k].arrays)

\* C5: a parameter table under the alias column names is accepted and its
\* columns reach the core under the names a, b, c, on both ingestion paths:
\* the application's upload (first conjunct) and carregar_csv (second).
AliasHeader == <<"discriminacao", "dificuldade", "acerto_casual">>
C5_AliasesAcceptedOnEveryPath ==
    /\ (/\ pc = "tab1_configurar"
        /\ ~arquivo_parametros.none
        /\ arquivo_parametros.val.header = AliasHeader)
       => /\ parametros_fornecidos
          /\ params_a = arquivo_parametros.val.cols[1]
          /\ params_b = arquivo_parametros.val.cols[2]
          /\ params_c = arquivo_parametros.val.cols[3]
    /\ (carregado # Pending /\ caminho.header = AliasHeader)
       => /\ carregado.exc = "none"
          /\ ColumnNames(carregado.val) = <<"a", "b", "c">>
          /\ carregado.val[1].values = caminho.cols[1]
          /\ carregado.val[2].values = caminho.cols[2]
          /\ carregado.val[3].values = caminho.cols[3]

\* C6: the response vector handed to the core holds only 0 and 1: an input
\* with any other value is reported and loads no response vector.
C6_ResponsesAreBinary ==
    /\ ~respostas.none => Binary(respostas.val)
    /\ \A k \in 1..Len(core_calls) :
          core_calls[k].arrays # <<>> => Binary(core_calls[k].arrays[1])

\* C7: the ENEM score the application shows lies between 0 and 1000, already
\* for response vectors of 0s and 1s.
C7_ScoreWithinScale ==
    ("nota" \in metricas /\ Binary(respostas.val))
        => (0 <= nota_enem.val /\ nota_enem.val <= 1000)

(***************************************************************************)
(* The claims about the loader, checked under LoaderSpec.                  *)
(***************************************************************************)
\* C9: when carregar_csv returns, the table has exactly the three columns
\* a, b, c in that order, whatever the input's column names; it raises
\* ValueError exactly when one of a, b, c is absent after alias renaming.
C9_ExactlyThreeColumns ==
    (carregado # Pending /\ Readable(caminho)) =>
        /\ carregado.exc = "none" => ColumnNames(carregado.val) = <<"a", "b", "c">>
        /\ carregado.exc = "ValueError" <=>
              ~HasAll(Rename(read_csv(caminho), mapeamento), <<"a", "b", "c">>)

(***************************************************************************)
(* The claims about the parameter generator, checked under GeneratorSpec.  *)
(***************************************************************************)
\* C11: two calls of gerar_parametros_realistas with the same integer seed
\* (0 included) and the same num_itens return the same table, however much
\* the global generator was used between them.
C11_SameSeedSameTable ==
    \A i, j \in 1..Len(gerados) :
        (/\ ~gerados[i].seed.none
         /\ gerados[i].seed = gerados[j].seed
         /\ gerados[i].num_itens = gerados[j].num_itens)
        => gerados[i].ret = gerados[j].ret

\* The same for the seeds other than 0, which is what line 23 gives.
C11_NonZeroSeedSameTable ==
    \A i, j \in 1..Len(gerados) :
        (/\ Truthy(gerados[i].seed)
         /\ gerados[i].seed = gerados[j].seed
         /\ gerados[i].num_itens = gerados[j].num_itens)
        => gerados[i].ret = gerados[j].ret

(***************************************************************************)
(* Further claims about the engine, checked under EngineSpec.              *)
(***************************************************************************)
\* C12: on a response vector of 1s only over n items, whatever theta and the
\* difficulties, analyze_consistency returns the total n and the label High
\* ("Alta").
C12_AllCorrectIsHigh ==
    (op = "analyze_consistency" /\ AllOnes(responses)) =>
        /\ ret.exc = "none"
        /\ ret.val.total_acertos = Len(responses)
        /\ ret.val.coerencia = "Alta"

C12_Witness ==
    /\ op = "analyze_consistency"
    /\ AllOnes(responses)
    /\ Len(responses) = MaxItems
    /\ Cardinality(EasySubset) = MaxItems
    /\ ret.val.total_acertos = MaxItems
    /\ ret.val.coerencia = "Alta"

\* The permutations of 1..n, and an array with a permutation applied.
Perms(n) == {p \in [1..n -> 1..n] : \A i, j \in 1..n : p[i] = p[j] => i = j}
Permute(arr, p) == [k \in 1..Len(arr) |-> arr[p[k]]]

\* C13: the record analyze_consistency returns does not depend on the order
\* of the items: the same permutation applied to responses and to b gives
\* the same record; and the difficulty sort inside has no influence: the
\* record is the sum of the responses, theta, and the label of the masked
\* accuracy rule.
C13_OrderIndependent ==
    op = "analyze_consistency" =>
        /\ \A p \in Perms(Len(responses)) :
              analyze_consistency(theta, Permute(responses, p),
                                  Permute(params_b, p)) = ret
        /\ ret = Return([total_acertos |-> SumSeq(responses),
                         theta_estimado |-> theta,
                         coerencia |->
                            IF EasySubset # {}
                               /\ 2 * EasyHits < Cardinality(EasySubset)
                            THEN "Baixa" ELSE "Alta"])

C13_Witness ==
    /\ op = "analyze_consistency"
    /\ Len(responses) = MaxItems
    /\ params_b # SortArray(params_b)
    /\ \E i, j \in 1..Len(responses) : responses[i] # responses[j]
    /\ ret.exc = "none"
    /\ ret.val.coerencia = "Baixa"

\* The probability of item i in the last call of log_posterior.
ItemProbability(i) ==
    logistic_3pl(theta, params_a[i], params_b[i], params_c[i])

C15_SynthesizedLengths ==
    (pc = "fim" /\ ~parametros_fornecidos /\ ~respostas.none) =>
        /\ Len(params_a) = Len(respostas.val)
        /\ Len(params_b) = Len(respostas.val)
        /\ Len(params_c) = Len(respostas.val)
        /\ num_itens = Some(Len(respostas.val))
        /\ Len(core_calls) = 3
        /\ \A k \in 1..Len(core_calls) :
              \A x \in 1..Len(core_calls[k].arrays) :
                 Len(core_calls[k].arrays[x]) = Len(respostas.val)
        /\ exc \notin {"ValueError", "IndexError", "NameError"}

\* The example of 45 responses with the slider at 180, after an uploaded
\* parameter file was rejected.
C15_Witness ==
    /\ pc = "fim"
    /\ ~arquivo_parametros.none
    /\ ~parametros_fornecidos
    /\ tipo_entrada = "Usar Exemplo"
    /\ num_questoes = 180
    /\ Len(respostas.val) = 45
    /\ Len(params_a) = 45
    /\ Len(core_calls) = 3
    /\ exc = "none"

=============================================================================
